---- MODULE Spec2Model ----
(***************************************************************************)
(* A model of loggy.Logger (field-registry revision, src/loggy.go:167-357): *)
(* a Logger value is a sink reference plus a Go slice of field names; every *)
(* leveled method extracts the registered fields from the context, merges   *)
(* them with the call-site arguments and invokes one operation of the sink. *)
(***************************************************************************)
EXTENDS Integers, Sequences, FiniteSets, TLC

\* ------------------------------------------------------------------ bounds
\* Number of Logger values published by New and WithFields together.
MaxLoggers == 4
\* Spare capacity an allocating append may leave behind the new length.
MaxSpare == 1
\* Goroutines that log concurrently.
NumThreads == 2

\* ------------------------------------------------------------------ inputs
Threads == 1 .. NumThreads
\* The goroutine the program starts in.
MainThread == CHOOSE t \in Threads : \A u \in Threads : t <= u

\* The untyped nil of an interface{} value.
NIL == "<nil>"

\* Arguments of one WithFields call.
NameLists == {<<>>, <<"request_id">>, <<"user">>, <<"request_id", "user">>}

\* A context is the chain of WithValue bindings above context.Background(),
\* outermost first.  A key is compared with its dynamic type: kt is the type.
\* A value is written as Go prints it: "" is the empty string, "0" the int 0.
Bind(kt, k, v) == [kt |-> kt, k |-> k, v |-> v]

Contexts ==
    { <<>>,
      << Bind("string", "request_id", "rid-1") >>,
      << Bind("string", "user", "usr-1") >>,
      << Bind("string", "request_id", "rid-1"), Bind("string", "user", "usr-1") >>,
      << Bind("string", "request_id", "rid-1"), Bind("string", "request_id", "rid-2") >>,
      << Bind("string", "request_id", "rid-1"), Bind("string", "request_id", NIL) >>,
      << Bind("ctxKey", "request_id", "rid-9"), Bind("string", "user", "") >>,
      << Bind("string", "request_id", "0"), Bind("string", "user", "") >> }

\* ------------------------------------------------------------- the sink
\* The sinks a program may build a Logger from: 1 is a production logger,
\* 2 a development logger.
Sinks == {1, 2}

Development(s) == s = 2

\* What the calling goroutine does after the sink operation of level lv:
\* Panic panics and Fatal exits even when the level is disabled, DPanic
\* panics in development mode only.
SinkOutcome(s, lv) ==
    CASE lv = "panic" -> "panicked"
      [] lv = "fatal" -> "exited"
      [] lv = "dpanic" -> IF Development(s) THEN "panicked" ELSE "returned"
      [] OTHER -> "returned"

\* ------------------------------------------------------------- context
\* ctx.Value(key): the innermost binding whose key equals key, nil if none.
RECURSIVE Value(_, _, _)
Value(ctx, kt, k) ==
    IF ctx = <<>> THEN NIL
    ELSE LET b == ctx[Len(ctx)]
         IN  IF b.kt = kt /\ b.k = k THEN b.v
             ELSE Value(SubSeq(ctx, 1, Len(ctx) - 1), kt, k)

\* ------------------------------------------------------------- Go slices
\* A slice header: arr is the index of its backing array in the heap (0 for
\* the nil slice), len and cap as in Go.
NilSlice == [arr |-> 0, len |-> 0, cap |-> 0]

\* The elements a slice header shows on heap h.
Elems(h, s) == [i \in 1 .. s.len |-> h[s.arr][i]]

\* Capacities an allocating append may choose for need elements.
NewCaps(need) == need .. need + MaxSpare

\* append whose in-place branch starts writing one cell early, over the last
\* element of s.
appendOverLast(h, s, xs, newcap) ==
    LET n == Len(xs) IN
    IF s.len + n <= s.cap
    THEN [heap |-> IF n = 0 THEN h
                   ELSE [h EXCEPT ![s.arr] =
                            [i \in 1 .. s.cap |->
                                IF i >= s.len /\ i < s.len + n /\ i >= 1
                                THEN xs[i - s.len + 1] ELSE @[i]]],
          slice |-> [s EXCEPT !.len = s.len + n]]
    ELSE [heap |-> Append(h, [i \in 1 .. newcap |->
                                IF i <= s.len THEN h[s.arr][i]
                                ELSE IF i <= s.len + n THEN xs[i - s.len]
                                ELSE ""]),
          slice |-> [arr |-> Len(h) + 1, len |-> s.len + n, cap |-> newcap]]

\* append whose allocating branch does not copy the elements of s.
appendNoCopy(h, s, xs, newcap) ==
    LET n == Len(xs) IN
    IF s.len + n <= s.cap
    THEN [heap |-> IF n = 0 THEN h
                   ELSE [h EXCEPT ![s.arr] =
                            [i \in 1 .. s.cap |->
                                IF i > s.len /\ i <= s.len + n
                                THEN xs[i - s.len] ELSE @[i]]],
          slice |-> [s EXCEPT !.len = s.len + n]]
    ELSE [heap |-> Append(h, [i \in 1 .. newcap |->
                                IF i <= s.len THEN ""
                                ELSE IF i <= s.len + n THEN xs[i - s.len]
                                ELSE ""]),
          slice |-> [arr |-> Len(h) + 1, len |-> s.len + n, cap |-> newcap]]

\* append(s, xs...): in place when the capacity suffices, otherwise into a
\* fresh array of capacity newcap holding a copy of s.  Yields the heap and
\* the returned header.
append(h, s, xs, newcap) ==
    LET n == Len(xs) IN
    IF s.len + n <= s.cap
    THEN [heap |-> IF n = 0 THEN h
                   ELSE [h EXCEPT ![s.arr] =
                            [i \in 1 .. s.cap |->
                                IF i > s.len /\ i <= s.len + n
                                THEN xs[i - s.len] ELSE @[i]]],
          slice |-> [s EXCEPT !.len = s.len + n]]
    ELSE [heap |-> Append(h, [i \in 1 .. newcap |->
                                IF i <= s.len THEN h[s.arr][i]
                                ELSE IF i <= s.len + n THEN xs[i - s.len]
                                ELSE ""]),
          slice |-> [arr |-> Len(h) + 1, len |-> s.len + n, cap |-> newcap]]

\* ------------------------------------------------------------- the Logger
\* Logger{SugaredLogger: zapLogger}
New(zapLogger) == [sink |-> zapLogger, fields |-> NilSlice]

\* The registered field names of Logger l on heap h.
Fields(h, l) == Elems(h, l.fields)

\* keyvals.toGenericSlice: key, value, key, value, ... in call order.
RECURSIVE toGenericSlice(_)
toGenericSlice(kvs) ==
    IF kvs = <<>> THEN <<>>
    ELSE <<kvs[1].Key, kvs[1].Val>> \o toGenericSlice(Tail(kvs))

\* extractField without the nil test: an absent field is emitted with nil.
extractFieldKeepNil(ctxArgs, ctx, field) ==
    ctxArgs \o <<field, Value(ctx, "string", field)>>

\* extractField that emits a name once: a field already among the keys of
\* ctxArgs is skipped.
extractFieldOnce(ctxArgs, ctx, field) ==
    LET val == Value(ctx, "string", field)
        seen == \E j \in 1 .. (Len(ctxArgs) \div 2) : ctxArgs[2 * j - 1] = field
    IN  IF val # NIL /\ ~seen THEN ctxArgs \o <<field, val>> ELSE ctxArgs

\* extractField that takes the zero value for absence: val != nil && val != "".
extractFieldSkipEmpty(ctxArgs, ctx, field) ==
    LET val == Value(ctx, "string", field)
    IN  IF val # NIL /\ val # "" THEN ctxArgs \o <<field, val>> ELSE ctxArgs

\* extractField that appends the name without its value.
extractFieldKeyOnly(ctxArgs, ctx, field) ==
    LET val == Value(ctx, "string", field)
    IN  IF val # NIL THEN ctxArgs \o <<field>> ELSE ctxArgs

\* One iteration of the loop of extractArgsFromCtx over field.
extractField(ctxArgs, ctx, field) ==
    LET val == Value(ctx, "string", field)
    IN  IF val # NIL THEN ctxArgs \o <<field, val>> ELSE ctxArgs

\* The loop of extractArgsFromCtx from index i on.
RECURSIVE extractFrom(_, _, _, _)
extractFrom(fs, ctx, i, ctxArgs) ==
    IF i > Len(fs) THEN ctxArgs
    ELSE extractFrom(fs, ctx, i + 1, extractField(ctxArgs, ctx, fs[i]))

\* l.extractArgsFromCtx(ctx) on heap h.
extractArgsFromCtx(h, l, ctx) == extractFrom(Fields(h, l), ctx, 1, <<>>)


\* ------------------------------------------------------------- call inputs
KV(k, v) == [Key |-> k, Val |-> v]

\* The KeyVal arguments of a structured call.
PairLists ==
    { <<>>,
      << KV("key", "value") >>,
      << KV("request_id", "override"), KV("key", "value") >> }

\* The positional arguments of a positional or templated call.
ArgLists == { <<>>, <<"here">> }

Msgs == {"something goes here"}

\* ------------------------------------------------------------------ state
VARIABLES
    heap,     \* the backing arrays of the field slices, in allocation order
    loggers,  \* the Logger values returned by New and WithFields so far
    born,     \* per Logger value: its receiver, arguments and fields when returned
    frame,    \* per goroutine: its current or last leveled call
    exited    \* the process has terminated (os.Exit)

vars == <<heap, loggers, born, frame, exited>>

\* A sink operation as the sink sees it: the operation (level and style), the
\* attributes bound by With on the way, the message or template and the
\* variadic arguments.
SinkCall(s, attrs, lv, sty, msg, args) ==
    [sink |-> s, attrs |-> attrs, level |-> lv, style |-> sty,
     msg |-> msg, args |-> args]

NoCall == SinkCall(0, <<>>, "", "", "", <<>>)

NoLogger == New(0)

IdleFrame ==
    [pc |-> "idle", method |-> "", l |-> NoLogger, ctx |-> <<>>, msg |-> "",
     args |-> <<>>, kvs |-> <<>>, i |-> 0, ctxArgs |-> <<>>,
     inv |-> NoCall, derived |-> 0, conc |-> FALSE,
     writes |-> 0, again |-> FALSE, ret |-> "", sinkRet |-> "", level |-> "", seen |-> <<>>]

\* Besides the call's parameters and locals a frame records what the call did:
\* inv the sink operation it invoked, writes how many it invoked, derived how
\* many sinks it derived with With, ret the error it returned and sinkRet the
\* one the sink returned to it; again tells that an earlier call of the
\* goroutine has returned, conc that the call began while another was running;
\* level is the level argument of Log, seen the fields the Logger showed when
\* a call taken step by step began.

\* Goroutine t is between calls.
Running(t) == ~exited /\ frame[t].pc = "idle"

Published == {loggers[i] : i \in 1 .. Len(loggers)}

\* ------------------------------------------------------------- WithFields
\* WithFields that returns a Logger built around the new field list alone,
\* Logger{fields: ...}, leaving the embedded sink nil.
WithFieldsResultNoSink(h, l, fields, newcap) ==
    LET r == append(h, l.fields, fields, newcap)
    IN  [heap |-> r.heap, logger |-> [sink |-> 0, fields |-> r.slice]]

\* WithFields that assigns the new names, l.fields = fields, in place of
\* appending them.
WithFieldsResultReplace(h, l, fields, newcap) ==
    LET r == append(h, NilSlice, fields, newcap)
    IN  [heap |-> r.heap, logger |-> [l EXCEPT !.fields = r.slice]]

\* l.fields = append(l.fields, fields...); return l
WithFieldsResult(h, l, fields, newcap) ==
    LET r == append(h, l.fields, fields, newcap)
    IN  [heap |-> r.heap, logger |-> [l EXCEPT !.fields = r.slice]]

WithFields(t, l, fields) ==
    /\ Running(t)
    /\ Len(loggers) < MaxLoggers
    /\ \E newcap \in NewCaps(l.fields.len + Len(fields)) :
          LET r == WithFieldsResult(heap, l, fields, newcap)
          IN  /\ heap' = r.heap
              /\ loggers' = Append(loggers, r.logger)
              /\ born' = Append(born, [recv |-> l, names |-> fields,
                                       fields |-> Fields(r.heap, r.logger)])
    /\ UNCHANGED <<frame, exited>>

\* ------------------------------------------------------------- leveled calls
\* Invoke whose extraction consumes the registry: each name it has looked up
\* is cleared in the backing array of l.fields.
InvokeConsuming(t, method, l, ctx, msg, args, kvs, ctxArgs, inv, derived) ==
    LET out == SinkOutcome(inv.sink, inv.level)
    IN  /\ frame' = [frame EXCEPT ![t] =
                        [pc |-> out, method |-> method, l |-> l, ctx |-> ctx,
                         msg |-> msg, args |-> args, kvs |-> kvs,
                         i |-> l.fields.len + 1, ctxArgs |-> ctxArgs,
                         inv |-> inv, derived |-> derived, conc |-> FALSE,
                         writes |-> 1, again |-> frame[t].again,
                         ret |-> "", sinkRet |-> "", level |-> "", seen |-> <<>>]]
        /\ exited' = (exited \/ out = "exited")
        /\ heap' = IF l.fields.len = 0 THEN heap
                   ELSE [heap EXCEPT ![l.fields.arr] =
                            [i \in 1 .. l.fields.cap |->
                                IF i <= l.fields.len THEN "" ELSE @[i]]]
        /\ UNCHANGED <<loggers, born>>

\* Invoke that enriches only the first record of a goroutine: once a call has
\* returned, later calls hand the sink the call-site arguments alone.
InvokeEnrichFirstOnly(t, method, l, ctx, msg, args, kvs, ctxArgs, inv, derived) ==
    LET bare == [inv EXCEPT !.attrs = <<>>, !.args = IF kvs = <<>> THEN args
                                                     ELSE toGenericSlice(kvs)]
        sent == IF frame[t].again THEN bare ELSE inv
        out == SinkOutcome(sent.sink, sent.level)
    IN  /\ frame' = [frame EXCEPT ![t] =
                        [pc |-> out, method |-> method, l |-> l, ctx |-> ctx,
                         msg |-> msg, args |-> args, kvs |-> kvs,
                         i |-> l.fields.len + 1, ctxArgs |-> ctxArgs,
                         inv |-> sent, derived |-> derived, conc |-> FALSE,
                         writes |-> 1, again |-> frame[t].again,
                         ret |-> "", sinkRet |-> "", level |-> "", seen |-> <<>>]]
        /\ exited' = (exited \/ out = "exited")
        /\ UNCHANGED <<heap, loggers, born>>

\* The sink operation inv has been invoked by method on behalf of goroutine
\* t; the goroutine then returns, panics or takes the process down.
Invoke(t, method, l, ctx, msg, args, kvs, ctxArgs, inv, derived) ==
    LET out == SinkOutcome(inv.sink, inv.level)
    IN  /\ frame' = [frame EXCEPT ![t] =
                        [pc |-> out, method |-> method, l |-> l, ctx |-> ctx,
                         msg |-> msg, args |-> args, kvs |-> kvs,
                         i |-> l.fields.len + 1, ctxArgs |-> ctxArgs,
                         inv |-> inv, derived |-> derived, conc |-> FALSE,
                         writes |-> 1, again |-> frame[t].again,
                         ret |-> "", sinkRet |-> "", level |-> "", seen |-> <<>>]]
        /\ exited' = (exited \/ out = "exited")
        /\ UNCHANGED <<heap, loggers, born>>

\* Positional that merges the context pairs as leading positional arguments.
PositionalLeadingTokens(t, method, l, ctx, args, lv) ==
    /\ Running(t)
    /\ LET ctxArgs == extractArgsFromCtx(heap, l, ctx)
       IN  Invoke(t, method, l, ctx, "", args, <<>>, ctxArgs,
                  SinkCall(l.sink, <<>>, lv, "print", "", ctxArgs \o args), 0)

\* l.SugaredLogger.With(l.extractArgsFromCtx(ctx)...).<op>(args...)
Positional(t, method, l, ctx, args, lv) ==
    /\ Running(t)
    /\ LET ctxArgs == extractArgsFromCtx(heap, l, ctx)
       IN  Invoke(t, method, l, ctx, "", args, <<>>, ctxArgs,
                  SinkCall(l.sink, ctxArgs, lv, "print", "", args), 1)

\* l.SugaredLogger.With(l.extractArgsFromCtx(ctx)...).<op>f(template, args...)
Templated(t, method, l, ctx, template, args, lv) ==
    /\ Running(t)
    /\ LET ctxArgs == extractArgsFromCtx(heap, l, ctx)
       IN  Invoke(t, method, l, ctx, template, args, <<>>, ctxArgs,
                  SinkCall(l.sink, ctxArgs, lv, "f", template, args), 1)

\* Structured with the call-site pairs ahead of the context fields.
StructuredCallSiteFirst(t, method, l, ctx, msg, kvs, lv) ==
    /\ Running(t)
    /\ LET ctxArgs == extractArgsFromCtx(heap, l, ctx)
           finalArgs == toGenericSlice(kvs) \o ctxArgs
       IN  Invoke(t, method, l, ctx, msg, <<>>, kvs, ctxArgs,
                  SinkCall(l.sink, <<>>, lv, "w", msg, finalArgs), 0)

\* Structured that returns without writing when a registered field is missing
\* from the context.
StructuredSkipIfAbsent(t, method, l, ctx, msg, kvs, lv) ==
    /\ Running(t)
    /\ LET ctxArgs == extractArgsFromCtx(heap, l, ctx)
           finalArgs == ctxArgs \o toGenericSlice(kvs)
       IN  IF Len(ctxArgs) < 2 * l.fields.len
           THEN /\ frame' = [frame EXCEPT ![t] =
                                [IdleFrame EXCEPT !.pc = "returned",
                                                  !.method = method, !.l = l,
                                                  !.ctx = ctx, !.msg = msg,
                                                  !.kvs = kvs,
                                                  !.i = l.fields.len + 1,
                                                  !.ctxArgs = ctxArgs,
                                                  !.again = frame[t].again]]
                /\ UNCHANGED <<heap, loggers, born, exited>>
           ELSE Invoke(t, method, l, ctx, msg, <<>>, kvs, ctxArgs,
                       SinkCall(l.sink, <<>>, lv, "w", msg, finalArgs), 0)

\* finalArgs := append(l.extractArgsFromCtx(ctx), keyvals(args).toGenericSlice()...)
\* l.SugaredLogger.<op>w(msg, finalArgs...)
Structured(t, method, l, ctx, msg, kvs, lv) ==
    /\ Running(t)
    /\ LET ctxArgs == extractArgsFromCtx(heap, l, ctx)
           finalArgs == ctxArgs \o toGenericSlice(kvs)
       IN  Invoke(t, method, l, ctx, msg, <<>>, kvs, ctxArgs,
                  SinkCall(l.sink, <<>>, lv, "w", msg, finalArgs), 0)

Debug(t, l, ctx, args) == Positional(t, "Debug", l, ctx, args, "debug")
Info(t, l, ctx, args) == Positional(t, "Info", l, ctx, args, "info")
Warn(t, l, ctx, args) == Positional(t, "Warn", l, ctx, args, "warn")
Error(t, l, ctx, args) == Positional(t, "Error", l, ctx, args, "error")
DPanic(t, l, ctx, args) == Positional(t, "DPanic", l, ctx, args, "dpanic")
Panic(t, l, ctx, args) == Positional(t, "Panic", l, ctx, args, "dpanic")
\* Fatal through the sink's Error.
FatalViaError(t, l, ctx, args) == Positional(t, "Fatal", l, ctx, args, "error")
Fatal(t, l, ctx, args) == Positional(t, "Fatal", l, ctx, args, "fatal")

Debugf(t, l, ctx, template, args) == Templated(t, "Debugf", l, ctx, template, args, "debug")
Infof(t, l, ctx, template, args) == Templated(t, "Infof", l, ctx, template, args, "info")
Warnf(t, l, ctx, template, args) == Templated(t, "Warnf", l, ctx, template, args, "warn")
Errorf(t, l, ctx, template, args) == Templated(t, "Errorf", l, ctx, template, args, "error")
DPanicf(t, l, ctx, template, args) == Templated(t, "DPanicf", l, ctx, template, args, "dpanic")
\* Panicf through the sink's DPanicf.
PanicfViaDPanicf(t, l, ctx, template, args) == Templated(t, "Panicf", l, ctx, template, args, "dpanic")
Panicf(t, l, ctx, template, args) == Templated(t, "Panicf", l, ctx, template, args, "panic")
Fatalf(t, l, ctx, template, args) == Templated(t, "Fatalf", l, ctx, template, args, "fatal")

Debugw(t, l, ctx, msg, kvs) == Structured(t, "Debugw", l, ctx, msg, kvs, "debug")
Infow(t, l, ctx, msg, kvs) == Structured(t, "Infow", l, ctx, msg, kvs, "info")
Warnw(t, l, ctx, msg, kvs) == Structured(t, "Warnw", l, ctx, msg, kvs, "warn")
Errorw(t, l, ctx, msg, kvs) == Structured(t, "Errorw", l, ctx, msg, kvs, "error")
DPanicw(t, l, ctx, msg, kvs) == Structured(t, "DPanicw", l, ctx, msg, kvs, "dpanic")
Panicw(t, l, ctx, msg, kvs) == Structured(t, "Panicw", l, ctx, msg, kvs, "panic")
Fatalw(t, l, ctx, msg, kvs) == Structured(t, "Fatalw", l, ctx, msg, kvs, "fatal")

\* ------------------------------------------------------------- Sync
\* What the sink's Sync may return: nil or the error of the failed flush.
SyncResults == {"nil", "sync /dev/stderr: invalid argument"}

\* Sync that reports success whatever the sink's Sync returned.
SyncSwallow(t, l) ==
    /\ Running(t)
    /\ \E res \in SyncResults :
          frame' = [frame EXCEPT ![t] =
                       [IdleFrame EXCEPT !.pc = "synced", !.method = "Sync",
                                         !.l = l,
                                         !.inv = SinkCall(l.sink, <<>>, "", "sync", "", <<>>),
                                         !.writes = 1, !.sinkRet = res,
                                         !.ret = "nil",
                                         !.again = frame[t].again]]
    /\ UNCHANGED <<heap, loggers, born, exited>>

\* return l.SugaredLogger.Sync(): one Sync of the sink, which returns res.
Sync(t, l) ==
    /\ Running(t)
    /\ \E res \in SyncResults :
          frame' = [frame EXCEPT ![t] =
                       [IdleFrame EXCEPT !.pc = "synced", !.method = "Sync",
                                         !.l = l,
                                         !.inv = SinkCall(l.sink, <<>>, "", "sync", "", <<>>),
                                         !.writes = 1, !.sinkRet = res,
                                         !.ret = res,
                                         !.again = frame[t].again]]
    /\ UNCHANGED <<heap, loggers, born, exited>>

\* The call of goroutine t has returned to its caller, which goes on.
Return(t) ==
    /\ ~exited
    /\ frame[t].pc \in {"returned", "synced"}
    /\ frame' = [frame EXCEPT ![t] = [IdleFrame EXCEPT !.again = TRUE]]
    /\ UNCHANGED <<heap, loggers, born, exited>>

\* ------------------------------------------------------------- the registry
\* A program that builds one Logger with New and derives others from it.
NoBirth == [recv |-> NoLogger, names |-> <<>>, fields |-> <<>>]

InitRegistry ==
    /\ heap = <<>>
    /\ \E s \in Sinks : loggers = << New(s) >>
    /\ born = << NoBirth >>
    /\ frame = [t \in Threads |-> IdleFrame]
    /\ exited = FALSE

NextRegistry ==
    \E l \in Published, fields \in NameLists : WithFields(MainThread, l, fields)

SpecRegistry == InitRegistry /\ [][NextRegistry]_vars

\* ------------------------------------------------------------- one goroutine
\* The field lists of the loggers the calls go through.
FieldLists ==
    NameLists \cup { <<"user", "request_id">>, <<"request_id", "request_id">>,
                     <<"user", "request_id", "user">> }

\* A program that has built l0 := New(s) and l1 := l0.WithFields(fields...).
Init ==
    /\ \E s \in Sinks, fields \in FieldLists :
          \E newcap \in NewCaps(Len(fields)) :
             LET r == WithFieldsResult(<<>>, New(s), fields, newcap)
             IN  /\ heap = r.heap
                 /\ loggers = << New(s), r.logger >>
                 /\ born = << NoBirth,
                              [recv |-> New(s), names |-> fields,
                               fields |-> Fields(r.heap, r.logger)] >>
    /\ frame = [t \in Threads |-> IdleFrame]
    /\ exited = FALSE

\* Its main goroutine logs through them, one call at a time.
Next ==
    \/ Return(MainThread)
    \/ \E l \in Published : Sync(MainThread, l)
    \/ \E l \in Published, ctx \in Contexts, args \in ArgLists :
          \/ Debug(MainThread, l, ctx, args)
          \/ Info(MainThread, l, ctx, args)
          \/ Warn(MainThread, l, ctx, args)
          \/ Error(MainThread, l, ctx, args)
          \/ DPanic(MainThread, l, ctx, args)
          \/ Panic(MainThread, l, ctx, args)
          \/ Fatal(MainThread, l, ctx, args)
    \/ \E l \in Published, ctx \in Contexts, template \in Msgs, args \in ArgLists :
          \/ Debugf(MainThread, l, ctx, template, args)
          \/ Infof(MainThread, l, ctx, template, args)
          \/ Warnf(MainThread, l, ctx, template, args)
          \/ Errorf(MainThread, l, ctx, template, args)
          \/ DPanicf(MainThread, l, ctx, template, args)
          \/ Panicf(MainThread, l, ctx, template, args)
          \/ Fatalf(MainThread, l, ctx, template, args)
    \/ \E l \in Published, ctx \in Contexts, msg \in Msgs, kvs \in PairLists :
          \/ Debugw(MainThread, l, ctx, msg, kvs)
          \/ Infow(MainThread, l, ctx, msg, kvs)
          \/ Warnw(MainThread, l, ctx, msg, kvs)
          \/ Errorw(MainThread, l, ctx, msg, kvs)
          \/ DPanicw(MainThread, l, ctx, msg, kvs)
          \/ Panicw(MainThread, l, ctx, msg, kvs)
          \/ Fatalw(MainThread, l, ctx, msg, kvs)

Spec == Init /\ [][Next]_vars

\* ------------------------------------------------------------- goroutines
\* Request handlers that log through one shared Logger, each with the
\* context of its own request.  A call to Infow is taken apart into its steps:
\* entry, one iteration of the loop of extractArgsFromCtx at a time, and the
\* merge with the sink's Infow.
RidOf(t) == <<"rid-1", "rid-2", "rid-3", "rid-4">>[t]
UsrOf(t) == <<"usr-1", "usr-2", "usr-3", "usr-4">>[t]

RequestContexts(t) ==
    { << Bind("string", "request_id", RidOf(t)) >>,
      << Bind("string", "request_id", RidOf(t)), Bind("string", "user", UsrOf(t)) >> }

\* The Logger every handler uses.
SharedLogger == loggers[Len(loggers)]

\* The context goroutine t reads in a call: its own parameter, but the one
\* kept by the main goroutine when contexts are kept in shared storage.
ctxOfShared(t) == frame[MainThread].ctx

\* The ctx parameter of the call goroutine t is in.
ctxOf(t) == frame[t].ctx

\* Entry of l.Infow(ctx, msg, kvs...) and of the extractArgsFromCtx it calls:
\* ctxArgs := make([]interface{}, 0, len(l.fields)*2)
InfowBegin(t, l, ctx, msg, kvs) ==
    /\ Running(t)
    /\ frame' = [frame EXCEPT ![t] =
                    [IdleFrame EXCEPT !.pc = "extract", !.method = "Infow",
                                      !.l = l, !.ctx = ctx, !.msg = msg,
                                      !.kvs = kvs, !.i = 1,
                                      !.seen = Fields(heap, l),
                                      !.again = frame[t].again,
                                      !.conc = \E u \in Threads \ {t} :
                                                  frame[u].pc = "extract"]]
    /\ UNCHANGED <<heap, loggers, born, exited>>

\* One iteration of: for _, field := range l.fields { ... }
ExtractStep(t) ==
    /\ ~exited
    /\ frame[t].pc = "extract"
    /\ frame[t].i <= frame[t].l.fields.len
    /\ LET field == heap[frame[t].l.fields.arr][frame[t].i]
       IN  frame' = [frame EXCEPT
                        ![t].ctxArgs = extractField(@, ctxOf(t), field),
                        ![t].i = @ + 1]
    /\ UNCHANGED <<heap, loggers, born, exited>>

\* The loop is over: finalArgs := append(ctxArgs, toGenericSlice()...) and
\* l.SugaredLogger.Infow(msg, finalArgs...)
InfowWrite(t) ==
    /\ ~exited
    /\ frame[t].pc = "extract"
    /\ frame[t].i > frame[t].l.fields.len
    /\ LET f == frame[t]
           finalArgs == f.ctxArgs \o toGenericSlice(f.kvs)
           inv == SinkCall(f.l.sink, <<>>, "info", "w", f.msg, finalArgs)
       IN  frame' = [frame EXCEPT ![t].inv = inv, ![t].writes = 1,
                                  ![t].pc = SinkOutcome(inv.sink, inv.level)]
    /\ UNCHANGED <<heap, loggers, born, exited>>

NextConc ==
    \E t \in Threads :
        \/ \E ctx \in RequestContexts(t), msg \in Msgs :
              InfowBegin(t, SharedLogger, ctx, msg, << KV("key", "value") >>)
        \/ ExtractStep(t)
        \/ InfowWrite(t)
        \/ Return(t)

SpecConc == Init /\ [][NextConc]_vars

\* ------------------------------------------------------------- deriving
\* while logging: the main goroutine derives Loggers with WithFields while
\* the other goroutines log, step by step, through the Loggers published so
\* far.
Handlers == Threads \ {MainThread}

NextRace ==
    \/ \E l \in Published, fields \in NameLists : WithFields(MainThread, l, fields)
    \/ \E t \in Handlers :
          \/ /\ Running(t)
             /\ \E l \in Published, ctx \in RequestContexts(t), msg \in Msgs :
                   InfowBegin(t, l, ctx, msg, <<>>)
          \/ ExtractStep(t)
          \/ InfowWrite(t)
          \/ Return(t)

SpecRace == InitRegistry /\ [][NextRace]_vars

\* ------------------------------------------------------------- the Logger
\* with a level selector (the revision whose one logging method is Log)
\* zapcore's seven levels, and a Level value that is none of them.
SevenLevels == {"debug", "info", "warn", "error", "dpanic", "panic", "fatal"}
LogLevels == SevenLevels \cup {"Level(42)"}

\* A function value of a selector: the method value zapLogger.<op>w of the
\* SugaredLogger sink.
MethodValue(zapLogger, op) == [sink |-> zapLogger, op |-> op]

\* New: the selector maps each of the seven levels to the structured method
\* of that level of zapLogger.
SelectorNew(zapLogger) ==
    [sink |-> zapLogger, fields |-> NilSlice,
     logLevelSelector |-> [lv \in SevenLevels |-> MethodValue(zapLogger, lv)]]

\* The maps a caller passes to WithLogLevelSelector: nil, an empty map, a map
\* with entries for two levels only, both writing warnings to the second sink.
Selectors ==
    { [isNil |-> TRUE, fns |-> [lv \in {} |-> MethodValue(0, lv)]],
      [isNil |-> FALSE, fns |-> [lv \in {} |-> MethodValue(0, lv)]],
      [isNil |-> FALSE, fns |-> [lv \in {"info", "error"} |-> MethodValue(2, "warn")]] }

\* if s != nil { l.logLevelSelector = s }; return l
WithLogLevelSelector(l, s) ==
    IF ~s.isNil THEN [l EXCEPT !.logLevelSelector = s.fns] ELSE l

\* l.extractArgs(ctx) on heap h.
extractArgs(h, l, ctx) == extractFrom(Fields(h, l), ctx, 1, <<>>)

\* The frame of a completed Log.
LogFrame(t, l, ctx, level, msg, kvs, ctxArgs, inv, writes, pc) ==
    [IdleFrame EXCEPT !.pc = pc, !.method = "Log", !.l = l, !.ctx = ctx,
                      !.level = level, !.msg = msg, !.kvs = kvs,
                      !.i = l.fields.len + 1, !.ctxArgs = ctxArgs,
                      !.inv = inv, !.writes = writes,
                      !.again = frame[t].again]

\* Log that writes at info level when the selector has no entry for level.
LogDefaultInfo(t, l, ctx, level, msg, kvs) ==
    /\ Running(t)
    /\ LET ctxArgs == extractArgs(heap, l, ctx)
           finalArgs == ctxArgs \o toGenericSlice(kvs)
           fn == IF level \in DOMAIN l.logLevelSelector
                 THEN l.logLevelSelector[level]
                 ELSE MethodValue(l.sink, "info")
           inv == SinkCall(fn.sink, <<>>, fn.op, "w", msg, finalArgs)
           out == SinkOutcome(fn.sink, fn.op)
       IN  /\ frame' = [frame EXCEPT ![t] =
                           LogFrame(t, l, ctx, level, msg, kvs, ctxArgs, inv, 1, out)]
           /\ exited' = (exited \/ out = "exited")
    /\ UNCHANGED <<heap, loggers, born>>

\* argsI: the pairs flattened; finalArgs := append(l.extractArgs(ctx), argsI...)
\* if logger, ok := l.logLevelSelector[level]; ok { logger(msg, finalArgs...) }
Log(t, l, ctx, level, msg, kvs) ==
    /\ Running(t)
    /\ LET ctxArgs == extractArgs(heap, l, ctx)
           finalArgs == ctxArgs \o toGenericSlice(kvs)
       IN  IF level \in DOMAIN l.logLevelSelector
           THEN LET fn == l.logLevelSelector[level]
                    inv == SinkCall(fn.sink, <<>>, fn.op, "w", msg, finalArgs)
                    out == SinkOutcome(fn.sink, fn.op)
                IN  /\ frame' = [frame EXCEPT ![t] =
                                    LogFrame(t, l, ctx, level, msg, kvs, ctxArgs,
                                             inv, 1, out)]
                    /\ exited' = (exited \/ out = "exited")
           ELSE /\ frame' = [frame EXCEPT ![t] =
                                LogFrame(t, l, ctx, level, msg, kvs, ctxArgs,
                                         NoCall, 0, "returned")]
                /\ exited' = exited
    /\ UNCHANGED <<heap, loggers, born>>

\* A program that has built l0 := New(s) and
\* l1 := l0.WithFields(fields...).WithLogLevelSelector(sel).
InitSelector ==
    /\ \E s \in Sinks, fields \in NameLists, sel \in Selectors :
          \E newcap \in NewCaps(Len(fields)) :
             LET r == WithFieldsResult(<<>>, SelectorNew(s), fields, newcap)
             IN  /\ heap = r.heap
                 /\ loggers = << SelectorNew(s), WithLogLevelSelector(r.logger, sel) >>
                 /\ born = << NoBirth,
                              [recv |-> SelectorNew(s), names |-> fields,
                               fields |-> Fields(r.heap, r.logger)] >>
    /\ frame = [t \in Threads |-> IdleFrame]
    /\ exited = FALSE

NextSelector ==
    \/ Return(MainThread)
    \/ /\ Running(MainThread)
       /\ \E l \in Published, ctx \in Contexts, level \in LogLevels,
             msg \in Msgs, kvs \in PairLists :
                Log(MainThread, l, ctx, level, msg, kvs)

SpecSelector == InitSelector /\ [][NextSelector]_vars

\* ------------------------------------------------------------- the Logger
\* attached to the context (the revision of loggy.go without a field registry)
\* A zap SugaredLogger: the core it writes to and the pairs bound by With.
Zap(core) == [core |-> core, attrs |-> <<>>]

\* z.With(args...): a new SugaredLogger on the same core, args bound after
\* the pairs z has bound.
With(z, args) == [z EXCEPT !.attrs = @ \o args]

\* Logger{SugaredLogger: zapLogger}
AttachedNew(zapLogger) == [SugaredLogger |-> zapLogger]

\* return New(l.SugaredLogger.With(args...))
AttachedWithFields(l, args) == AttachedNew(With(l.SugaredLogger, args))

\* context.WithValue(ctx, loggerctxkey, logger)
ContextWithLogger(ctx, logger) ==
    Append(ctx, Bind("logContextKey", "logger", logger))

\* The type assertion .(Logger): v is a Logger, a struct with the one field
\* SugaredLogger.
IsLogger(v) == DOMAIN v = {"SugaredLogger"}

\* Find that compares the key by its text, whatever its type.
RECURSIVE FindAnyType(_, _, _)
FindAnyType(ctx, kt, k) ==
    IF ctx = <<>> THEN 0
    ELSE IF ctx[Len(ctx)].k = k THEN Len(ctx)
    ELSE FindAnyType(SubSeq(ctx, 1, Len(ctx) - 1), kt, k)

\* The index of the innermost binding of key k of type kt in ctx, 0 if the
\* context binds no such key.
RECURSIVE Find(_, _, _)
Find(ctx, kt, k) ==
    IF ctx = <<>> THEN 0
    ELSE IF ctx[Len(ctx)].kt = kt /\ ctx[Len(ctx)].k = k THEN Len(ctx)
    ELSE Find(SubSeq(ctx, 1, Len(ctx) - 1), kt, k)

\* extractLogger that looks at the last binding of the context only.
extractLoggerTopOnly(l, ctx) ==
    IF ctx # <<>> /\ ctx[Len(ctx)].kt = "logContextKey" /\ ctx[Len(ctx)].k = "logger"
    THEN ctx[Len(ctx)].v
    ELSE l

\* extractLogger without the ok test: the zero Logger when none is attached.
extractLoggerZero(l, ctx) ==
    LET i == Find(ctx, "logContextKey", "logger")
    IN  IF i = 0 THEN AttachedNew(Zap(0)) ELSE ctx[i].v

\* extractLogger that binds the receiver's pairs in front of the pairs of the
\* attached Logger.
extractLoggerMerged(l, ctx) ==
    LET i == Find(ctx, "logContextKey", "logger")
    IN  IF i = 0 \/ ~IsLogger(ctx[i].v) THEN l
        ELSE AttachedNew([ctx[i].v.SugaredLogger EXCEPT
                             !.attrs = l.SugaredLogger.attrs \o @])

\* extractLogger that resolves the Logger attached first, outermost.
extractLoggerOutermost(l, ctx) ==
    LET I == {i \in 1 .. Len(ctx) :
                 ctx[i].kt = "logContextKey" /\ ctx[i].k = "logger"}
    IN  IF I = {} THEN l ELSE ctx[CHOOSE i \in I : \A j \in I : i <= j].v

\* logger, ok := ctx.Value(loggerctxkey).(Logger); if !ok { return l }; return
\* logger
extractLogger(l, ctx) ==
    LET i == Find(ctx, "logContextKey", "logger")
    IN  IF i = 0 \/ ~IsLogger(ctx[i].v) THEN l ELSE ctx[i].v

\* The sink operation inv has been invoked by method of the context-attached
\* revision on behalf of goroutine t.
AttachedInvoke(t, method, l, ctx, msg, args, kvs, inv) ==
    LET out == SinkOutcome(inv.sink, inv.level)
    IN  /\ frame' = [frame EXCEPT ![t] =
                        [IdleFrame EXCEPT !.pc = out, !.method = method,
                                          !.l = l, !.ctx = ctx, !.msg = msg,
                                          !.args = args, !.kvs = kvs,
                                          !.inv = inv, !.writes = 1,
                                          !.again = frame[t].again]]
        /\ exited' = (exited \/ out = "exited")
        /\ UNCHANGED <<heap, loggers, born>>

\* l.extractLogger(ctx).SugaredLogger.<op>(args...)
AttachedPositional(t, method, l, ctx, args, lv) ==
    /\ Running(t)
    /\ LET z == extractLogger(l, ctx).SugaredLogger
       IN  AttachedInvoke(t, method, l, ctx, "", args, <<>>,
                          SinkCall(z.core, z.attrs, lv, "print", "", args))

\* l.extractLogger(ctx).SugaredLogger.<op>f(template, args...)
AttachedTemplated(t, method, l, ctx, template, args, lv) ==
    /\ Running(t)
    /\ LET z == extractLogger(l, ctx).SugaredLogger
       IN  AttachedInvoke(t, method, l, ctx, template, args, <<>>,
                          SinkCall(z.core, z.attrs, lv, "f", template, args))

\* l.extractLogger(ctx).SugaredLogger.<op>w(msg, args...), the variadic args
\* being the pairs kvs written key, value, key, value, ...
AttachedStructured(t, method, l, ctx, msg, kvs, lv) ==
    /\ Running(t)
    /\ LET z == extractLogger(l, ctx).SugaredLogger
       IN  AttachedInvoke(t, method, l, ctx, msg, toGenericSlice(kvs), kvs,
                          SinkCall(z.core, z.attrs, lv, "w", msg, toGenericSlice(kvs)))

AttachedDebug(t, l, ctx, args) == AttachedPositional(t, "Debug", l, ctx, args, "debug")
AttachedInfo(t, l, ctx, args) == AttachedPositional(t, "Info", l, ctx, args, "info")
AttachedWarn(t, l, ctx, args) == AttachedPositional(t, "Warn", l, ctx, args, "warn")
AttachedError(t, l, ctx, args) == AttachedPositional(t, "Error", l, ctx, args, "error")
AttachedDPanic(t, l, ctx, args) == AttachedPositional(t, "DPanic", l, ctx, args, "dpanic")
AttachedPanic(t, l, ctx, args) == AttachedPositional(t, "Panic", l, ctx, args, "panic")
AttachedFatal(t, l, ctx, args) == AttachedPositional(t, "Fatal", l, ctx, args, "fatal")

AttachedDebugf(t, l, ctx, template, args) ==
    AttachedTemplated(t, "Debugf", l, ctx, template, args, "debug")
AttachedInfof(t, l, ctx, template, args) ==
    AttachedTemplated(t, "Infof", l, ctx, template, args, "info")
AttachedWarnf(t, l, ctx, template, args) ==
    AttachedTemplated(t, "Warnf", l, ctx, template, args, "warn")
AttachedErrorf(t, l, ctx, template, args) ==
    AttachedTemplated(t, "Errorf", l, ctx, template, args, "error")
AttachedDPanicf(t, l, ctx, template, args) ==
    AttachedTemplated(t, "DPanicf", l, ctx, template, args, "dpanic")
AttachedPanicf(t, l, ctx, template, args) ==
    AttachedTemplated(t, "Panicf", l, ctx, template, args, "panic")
AttachedFatalf(t, l, ctx, template, args) ==
    AttachedTemplated(t, "Fatalf", l, ctx, template, args, "fatal")

AttachedDebugw(t, l, ctx, msg, kvs) ==
    AttachedStructured(t, "Debugw", l, ctx, msg, kvs, "debug")
AttachedInfow(t, l, ctx, msg, kvs) ==
    AttachedStructured(t, "Infow", l, ctx, msg, kvs, "info")
AttachedWarnw(t, l, ctx, msg, kvs) ==
    AttachedStructured(t, "Warnw", l, ctx, msg, kvs, "warn")
AttachedErrorw(t, l, ctx, msg, kvs) ==
    AttachedStructured(t, "Errorw", l, ctx, msg, kvs, "error")
AttachedDPanicw(t, l, ctx, msg, kvs) ==
    AttachedStructured(t, "DPanicw", l, ctx, msg, kvs, "dpanic")
AttachedPanicw(t, l, ctx, msg, kvs) ==
    AttachedStructured(t, "Panicw", l, ctx, msg, kvs, "panic")
AttachedFatalw(t, l, ctx, msg, kvs) ==
    AttachedStructured(t, "Fatalw", l, ctx, msg, kvs, "fatal")

\* A program that has built two root Loggers and children of them with
\* WithFields: one pair bound, a second pair bound on top, a pair whose value
\* is nil.
AttachedLoggers ==
    LET R1 == AttachedNew(Zap(1))
        A1 == AttachedWithFields(R1, <<"request_id", "rid-1">>)
        B1 == AttachedWithFields(A1, <<"user", "usr-1">>)
        N1 == AttachedWithFields(R1, <<"request_id", NIL>>)
        R2 == AttachedNew(Zap(2))
        A2 == AttachedWithFields(R2, <<"user", "usr-2">>)
    IN  <<R1, A1, B1, N1, R2, A2>>

\* A binding that is not a Logger, under the string key "logger": a zap
\* SugaredLogger with a pair bound.
OtherBinding ==
    Bind("string", "logger", With(Zap(2), <<"request_id", "rid-9">>))

\* A Logger bound by the caller with context.WithValue under the string key
\* "logger".
LoggerUnderString ==
    Bind("string", "logger",
         AttachedWithFields(AttachedNew(Zap(2)), <<"user", "usr-2">>))

\* The contexts of the calls: without a Logger, with one attached, with a
\* further binding added after the attachment, with a second Logger attached
\* on top of the first, with a Logger bound under a string key.
AttachedContexts ==
    LET Base == { <<>>, << Bind("string", "request_id", "rid-2") >> }
        Ls == {AttachedLoggers[i] : i \in 1 .. Len(AttachedLoggers)}
        One == {ContextWithLogger(c, x) : c \in Base, x \in Ls}
    IN  Base \cup {Append(c, OtherBinding) : c \in Base}
             \cup One
             \cup {Append(c, OtherBinding) : c \in One}
             \cup {Append(c, LoggerUnderString) : c \in Base \cup One}
             \cup {ContextWithLogger(c, y) : c \in One, y \in Ls}

InitAttached ==
    /\ heap = <<>>
    /\ loggers = AttachedLoggers
    /\ born = <<>>
    /\ frame = [t \in Threads |-> IdleFrame]
    /\ exited = FALSE

\* The main goroutine logs through any of the Loggers with any of the
\* contexts, one call at a time.
NextAttached ==
    \/ Return(MainThread)
    \/ /\ Running(MainThread)
       /\ \E l \in Published, ctx \in AttachedContexts, args \in ArgLists :
                \/ AttachedDebug(MainThread, l, ctx, args)
                \/ AttachedInfo(MainThread, l, ctx, args)
                \/ AttachedWarn(MainThread, l, ctx, args)
                \/ AttachedError(MainThread, l, ctx, args)
                \/ AttachedDPanic(MainThread, l, ctx, args)
                \/ AttachedPanic(MainThread, l, ctx, args)
                \/ AttachedFatal(MainThread, l, ctx, args)
    \/ /\ Running(MainThread)
       /\ \E l \in Published, ctx \in AttachedContexts, template \in Msgs, args \in ArgLists :
                \/ AttachedDebugf(MainThread, l, ctx, template, args)
                \/ AttachedInfof(MainThread, l, ctx, template, args)
                \/ AttachedWarnf(MainThread, l, ctx, template, args)
                \/ AttachedErrorf(MainThread, l, ctx, template, args)
                \/ AttachedDPanicf(MainThread, l, ctx, template, args)
                \/ AttachedPanicf(MainThread, l, ctx, template, args)
                \/ AttachedFatalf(MainThread, l, ctx, template, args)
    \/ /\ Running(MainThread)
       /\ \E l \in Published, ctx \in AttachedContexts, msg \in Msgs, kvs \in PairLists :
                \/ AttachedDebugw(MainThread, l, ctx, msg, kvs)
                \/ AttachedInfow(MainThread, l, ctx, msg, kvs)
                \/ AttachedWarnw(MainThread, l, ctx, msg, kvs)
                \/ AttachedErrorw(MainThread, l, ctx, msg, kvs)
                \/ AttachedDPanicw(MainThread, l, ctx, msg, kvs)
                \/ AttachedPanicw(MainThread, l, ctx, msg, kvs)
                \/ AttachedFatalw(MainThread, l, ctx, msg, kvs)

SpecAttached == InitAttached /\ [][NextAttached]_vars

\* ======================================================================
\* Properties
\* ======================================================================
PositionalMethods == {"Debug", "Info", "Warn", "Error", "DPanic", "Panic", "Fatal"}
TemplatedMethods == {"Debugf", "Infof", "Warnf", "Errorf", "DPanicf", "Panicf", "Fatalf"}
StructuredMethods == {"Debugw", "Infow", "Warnw", "Errorw", "DPanicw", "Panicw", "Fatalw"}

\* The severity and the call style a method's name stands for.
MethodLevel(m) ==
    CASE m \in {"Debug", "Debugf", "Debugw"} -> "debug"
      [] m \in {"Info", "Infof", "Infow"} -> "info"
      [] m \in {"Warn", "Warnf", "Warnw"} -> "warn"
      [] m \in {"Error", "Errorf", "Errorw"} -> "error"
      [] m \in {"DPanic", "DPanicf", "DPanicw"} -> "dpanic"
      [] m \in {"Panic", "Panicf", "Panicw"} -> "panic"
      [] m \in {"Fatal", "Fatalf", "Fatalw"} -> "fatal"

MethodStyle(m) ==
    CASE m \in PositionalMethods -> "print"
      [] m \in TemplatedMethods -> "f"
      [] m \in StructuredMethods -> "w"

\* Goroutine t has made a call whose sink operation has been invoked.
Called(t) == frame[t].pc \in {"returned", "panicked", "exited"}

\* The keys (odd positions) of a flat key, value, key, value ... sequence.
KeysOf(kv) == [j \in 1 .. (Len(kv) \div 2) |-> kv[2 * j - 1]]

\* C1: extractArgsFromCtx(C) returns exactly the registered names that are
\* present in C, in registry order, each immediately followed by its context
\* value; absent names and names outside the registry never appear.
C1_ExtractExact ==
    \A t \in Threads :
        Called(t) =>
            LET f == frame[t]
                F == Fields(heap, f.l)
                r == f.ctxArgs
                Present(k) == Value(f.ctx, "string", k) # NIL
            IN  /\ r = extractArgsFromCtx(heap, f.l, f.ctx)
                /\ Len(r) % 2 = 0
                /\ KeysOf(r) = SelectSeq(F, Present)
                /\ \A j \in 1 .. (Len(r) \div 2) :
                      /\ r[2 * j] = Value(f.ctx, "string", r[2 * j - 1])
                      /\ r[2 * j] # NIL
                      /\ \E i \in 1 .. Len(F) : F[i] = r[2 * j - 1]

\* Registry request_id, user; only user bound: exactly (user, usr-1) comes out.
C1_Witness ==
    \E t \in Threads :
        /\ Called(t)
        /\ Fields(heap, frame[t].l) = <<"request_id", "user">>
        /\ frame[t].ctx = << Bind("string", "user", "usr-1") >>
        /\ frame[t].ctxArgs = <<"user", "usr-1">>

\* C2: every structured method hands the sink exactly extract(C) followed by
\* the call-site pairs flattened key, value in call order: nothing reordered,
\* nothing deduplicated, nothing bound on the side.
C2_StructuredConcat ==
    \A t \in Threads :
        (Called(t) /\ frame[t].method \in StructuredMethods) =>
            LET f == frame[t]
                e == extractArgsFromCtx(heap, f.l, f.ctx)
                a == f.inv.args
            IN  /\ f.inv.attrs = <<>>
                /\ f.inv.msg = f.msg
                /\ Len(a) = Len(e) + 2 * Len(f.kvs)
                /\ SubSeq(a, 1, Len(e)) = e
                /\ \A j \in 1 .. Len(f.kvs) :
                      /\ a[Len(e) + 2 * j - 1] = f.kvs[j].Key
                      /\ a[Len(e) + 2 * j] = f.kvs[j].Val

\* request_id is in the context and at the call site: both are emitted, the
\* context value first.
C2_Witness ==
    \E t \in Threads :
        /\ Called(t)
        /\ frame[t].method \in StructuredMethods
        /\ frame[t].inv.args =
              <<"request_id", "rid-1", "request_id", "override", "key", "value">>

\* C6: each positional method invokes the sink's positional operation of its
\* own severity.
C6_PositionalOwnSeverity ==
    \A t \in Threads :
        (Called(t) /\ frame[t].method \in PositionalMethods) =>
            /\ frame[t].inv.level = MethodLevel(frame[t].method)
            /\ frame[t].inv.style = "print"

\* C7: each templated and each structured method invokes the sink operation of
\* its own severity and its own call style.
C7_TemplatedStructuredOwnOp ==
    \A t \in Threads :
        (Called(t) /\ frame[t].method \in TemplatedMethods \cup StructuredMethods) =>
            /\ frame[t].inv.level = MethodLevel(frame[t].method)
            /\ frame[t].inv.style = MethodStyle(frame[t].method)
            /\ frame[t].inv.sink = frame[t].l.sink

C7_Witness ==
    \E t \in Threads :
        /\ Called(t)
        /\ frame[t].method = "Panicf"
        /\ frame[t].inv.level = "panic"
        /\ frame[t].inv.style = "f"

\* C8: a call at panic severity writes to the sink and then always panics,
\* whatever the sink's mode and level; it never returns normally.
C8_PanicAlwaysPanics ==
    \A t \in Threads :
        (Called(t) /\ MethodLevel(frame[t].method) = "panic") =>
            /\ frame[t].inv # NoCall
            /\ frame[t].pc = "panicked"

\* What a call at fatal severity leaves behind: the sink's fatal operation of
\* the method's style, invoked with the context fields, and a dead process.
C9_FatalState ==
    \A t \in Threads :
        (Called(t) /\ MethodLevel(frame[t].method) = "fatal") =>
            LET f == frame[t]
                e == extractArgsFromCtx(heap, f.l, f.ctx)
            IN  /\ f.inv.level = "fatal"
                /\ f.inv.style = MethodStyle(f.method)
                /\ IF f.method = "Fatalw"
                   THEN SubSeq(f.inv.args, 1, Len(e)) = e
                   ELSE f.inv.attrs = e
                /\ f.pc = "exited"
                /\ exited

\* C9: a call at fatal severity invokes the sink's fatal write with the
\* context fields merged in, then the process terminates; once it has
\* terminated no goroutine writes again.
C9_FatalWriteThenExit ==
    /\ []C9_FatalState
    /\ [][exited => (exited' /\ frame' = frame)]_vars

C9_Witness ==
    \E t \in Threads :
        /\ frame[t].method = "Fatal"
        /\ frame[t].pc = "exited"
        /\ frame[t].inv.attrs = <<"request_id", "rid-1">>
        /\ exited

\* ---------------------------------------------------------------- merging
\* How many elements of seq are x.
Count(seq, x) == Cardinality({i \in 1 .. Len(seq) : seq[i] = x})

\* C21: the field list keeps duplicate names, and a name registered k times
\* and present in the context is emitted as k (name, value) pairs, each at
\* the place of its registration among the present registrations.
C21_DuplicatesKept ==
    \A t \in Threads :
        Called(t) =>
            LET f == frame[t]
                F == Fields(heap, f.l)
                r == f.ctxArgs
                Present(i) == Value(f.ctx, "string", F[i]) # NIL
                place(i) == Cardinality({x \in 1 .. i : Present(x)})
            IN  /\ f.l = loggers[2] => F = born[2].names
                /\ \A i \in 1 .. Len(F) :
                      /\ Count(KeysOf(r), F[i]) =
                            IF Present(i) THEN Count(F, F[i]) ELSE 0
                      /\ Present(i) =>
                            /\ r[2 * place(i) - 1] = F[i]
                            /\ r[2 * place(i)] = Value(f.ctx, "string", F[i])

\* user registered twice around request_id, both in the context.
C21_Witness ==
    \E t \in Threads :
        /\ Called(t)
        /\ Fields(heap, frame[t].l) = <<"user", "request_id", "user">>
        /\ frame[t].ctxArgs =
              <<"user", "usr-1", "request_id", "rid-1", "user", "usr-1">>

\* C22: every positional and templated method binds the context pairs
\* through one With of the sink and forwards the template and the call-site
\* arguments as they are.
C22_BoundThroughWith ==
    \A t \in Threads :
        (Called(t) /\ frame[t].method \in PositionalMethods \cup TemplatedMethods) =>
            LET f == frame[t]
            IN  /\ f.inv.attrs = extractArgsFromCtx(heap, f.l, f.ctx)
                /\ f.inv.args = f.args
                /\ f.inv.msg = f.msg
                /\ f.inv.style = MethodStyle(f.method)
                /\ f.derived = 1

C22_Witness ==
    \E t \in Threads :
        /\ Called(t)
        /\ frame[t].method = "Warnf"
        /\ frame[t].inv.attrs = <<"request_id", "rid-1">>
        /\ frame[t].inv.args = <<"here">>
        /\ frame[t].inv.msg = "something goes here"

\* C24: a registered field is omitted exactly when its lookup yields nil,
\* unbound or bound to nil; bound to anything else, the empty string and zero
\* included, it is emitted with that value.
C24_NilAloneIsAbsent ==
    \A t \in Threads :
        Called(t) =>
            LET f == frame[t]
                F == Fields(heap, f.l)
                r == f.ctxArgs
            IN  \A i \in 1 .. Len(F) :
                    LET val == Value(f.ctx, "string", F[i])
                    IN  IF val = NIL
                        THEN \A j \in 1 .. Len(r) : r[j] # F[i]
                        ELSE \E j \in 1 .. (Len(r) \div 2) :
                                r[2 * j - 1] = F[i] /\ r[2 * j] = val

\* request_id bound to 0 and user to the empty string: both are emitted.
C24_Witness ==
    \E t \in Threads :
        /\ Called(t)
        /\ Fields(heap, frame[t].l) = <<"request_id", "user">>
        /\ frame[t].ctxArgs = <<"request_id", "0", "user", "">>

\* C25: the arguments a structured call hands the sink are of even length, at
\* most two per registered field and call-site pair, with a key, a field name
\* or the Key of a pair, at every odd place (counting from 1).
C25_EvenKeyed ==
    \A t \in Threads :
        (Called(t) /\ frame[t].method \in StructuredMethods) =>
            LET f == frame[t]
                F == Fields(heap, f.l)
                a == f.inv.args
                Keys == {F[i] : i \in 1 .. Len(F)} \cup
                        {f.kvs[i].Key : i \in 1 .. Len(f.kvs)}
            IN  /\ Len(a) % 2 = 0
                /\ Len(a) <= 2 * (Len(F) + Len(f.kvs))
                /\ \A j \in 1 .. ((Len(a) + 1) \div 2) : a[2 * j - 1] \in Keys

\* Two fields registered, one in the context, two pairs at the call site.
C25_Witness ==
    \E t \in Threads :
        /\ Called(t)
        /\ frame[t].method = "Debugw"
        /\ Fields(heap, frame[t].l) = <<"request_id", "user">>
        /\ frame[t].inv.args =
              <<"request_id", "rid-1", "request_id", "override", "key", "value">>

\* ---------------------------------------------------------------- effects
\* C14: Sync returns what the sink's Sync returned, an error exactly when the
\* sink returned one and then that error, after one Sync of the sink.
C14_SyncVerbatim ==
    \A t \in Threads :
        frame[t].pc = "synced" =>
            /\ frame[t].ret = frame[t].sinkRet
            /\ (frame[t].ret # "nil") <=> (frame[t].sinkRet # "nil")
            /\ frame[t].writes = 1
            /\ frame[t].inv.style = "sync"
            /\ frame[t].inv.sink = frame[t].l.sink

\* The sink's Sync failed and Sync returned its error.
C14_Witness ==
    \E t \in Threads :
        /\ frame[t].pc = "synced"
        /\ frame[t].sinkRet = "sync /dev/stderr: invalid argument"
        /\ frame[t].ret = "sync /dev/stderr: invalid argument"

\* C15: every call of a leveled method invokes exactly one write of the
\* Logger's sink, whether all, some or none of the registered fields are in
\* the context, and what the call does next is the sink's doing alone.
C15_OneWrite ==
    \A t \in Threads :
        Called(t) =>
            /\ frame[t].writes = 1
            /\ frame[t].inv # NoCall
            /\ frame[t].inv.sink = frame[t].l.sink
            /\ frame[t].pc = SinkOutcome(frame[t].l.sink, frame[t].inv.level)

\* Two fields registered, one of them in the context: one write.
C15_Witness ==
    \E t \in Threads :
        /\ Called(t)
        /\ frame[t].method = "Infow"
        /\ Fields(heap, frame[t].l) = <<"request_id", "user">>
        /\ frame[t].ctx = << Bind("string", "user", "usr-1") >>
        /\ frame[t].writes = 1
        /\ frame[t].inv.args = <<"user", "usr-1">>

\* C16: no call, in any call style, derives a logger or sink from the shared
\* one.
C16_NoDerivedSink ==
    \A t \in Threads : Called(t) => frame[t].derived = 0

\* C17: a leveled call reads the Logger and the context and writes neither:
\* the heap, the published Loggers, the field list and the sink of the Logger
\* called are as before, and the context the call was given still yields to
\* the same extraction what the call extracted.
C17_PureRead ==
    [][\A t \in Threads :
          (frame[t].pc = "idle" /\ frame'[t].pc \in {"returned", "panicked", "exited"}) =>
              LET f == frame'[t]
              IN  /\ heap' = heap
                  /\ loggers' = loggers
                  /\ born' = born
                  /\ f.l \in Published
                  /\ Fields(heap', f.l) = Fields(heap, f.l)
                  /\ f.ctx \in Contexts
                  /\ extractArgsFromCtx(heap', f.l, f.ctx) = f.ctxArgs
                  /\ extractArgsFromCtx(heap, f.l, f.ctx) = f.ctxArgs
      ]_vars

\* A call that found both of its Logger's fields in the context.
C17_Witness ==
    \E t \in Threads :
        /\ Called(t)
        /\ Fields(heap, frame[t].l) = <<"request_id", "user">>
        /\ frame[t].ctxArgs = <<"request_id", "rid-1", "user", "usr-1">>
        /\ frame[t].l \in Published

\* The sink operation the body of method m names.
SinkOp(m) == IF m = "Panic" THEN "dpanic" ELSE MethodLevel(m)

\* C18: the sink call of a leveled call is a function of the method, the
\* Logger's sink and field list, the context and the call-site arguments:
\* whatever calls went before, it is the same.
C18_Stateless ==
    \A t \in Threads :
        Called(t) =>
            LET f == frame[t]
                e == extractFrom(Fields(heap, f.l), f.ctx, 1, <<>>)
            IN  f.inv = IF f.method \in StructuredMethods
                        THEN SinkCall(f.l.sink, <<>>, SinkOp(f.method), "w",
                                      f.msg, e \o toGenericSlice(f.kvs))
                        ELSE SinkCall(f.l.sink, e, SinkOp(f.method),
                                      MethodStyle(f.method), f.msg, f.args)

\* A call made after an earlier call of the same goroutine has returned.
C18_Witness ==
    \E t \in Threads :
        /\ Called(t)
        /\ frame[t].again
        /\ frame[t].method = "Errorw"
        /\ frame[t].inv.args = <<"request_id", "rid-1", "key", "value">>

\* ---------------------------------------------------------------- registry
\* C3: the field list a Logger value probes never changes after New or
\* WithFields has returned it, whatever later WithFields calls do.
C3_FieldsFrozen ==
    \A i \in 1 .. Len(loggers) : Fields(heap, loggers[i]) = born[i].fields

\* The last Logger was derived from the one before it, which was itself
\* derived: L.WithFields(a).WithFields(b) has just been evaluated.
Chained ==
    /\ Len(loggers) >= 3
    /\ born[Len(loggers)].recv = loggers[Len(loggers) - 1]

\* C4: L.WithFields(a).WithFields(b) registers L's fields, then a, then b,
\* the same list as L.WithFields(a ++ b).
C4_Cumulative ==
    Chained =>
        LET k == Len(loggers)
            L == born[k - 1].recv
            a == born[k - 1].names
            b == born[k].names
        IN  /\ Fields(heap, loggers[k]) = Fields(heap, L) \o a \o b
            /\ \A newcap \in NewCaps(L.fields.len + Len(a) + Len(b)) :
                  LET r == WithFieldsResult(heap, L, a \o b, newcap)
                  IN  Fields(r.heap, r.logger) = Fields(heap, loggers[k])

\* A chain on a Logger that already has a field, with a and b not empty.
C4_Witness ==
    /\ Chained
    /\ born[Len(loggers) - 1].recv.fields.len > 0
    /\ born[Len(loggers) - 1].names = <<"user">>
    /\ born[Len(loggers)].names = <<"request_id", "user">>
    /\ Fields(heap, loggers[Len(loggers)]) =
          <<"request_id", "user", "request_id", "user">>

\* C5: WithFields leaves its receiver as it was: the fields the receiver
\* shows, its sink, every Logger value published before, and what a log call
\* through the receiver extracts from any context.
C5_ReceiverUntouched ==
    [][Len(loggers') > Len(loggers) =>
          LET L == born'[Len(loggers')].recv
          IN  /\ Fields(heap', L) = Fields(heap, L)
              /\ SubSeq(loggers', 1, Len(loggers)) = loggers
              /\ loggers'[Len(loggers')].sink = L.sink
              /\ \A ctx \in Contexts :
                    extractArgsFromCtx(heap', L, ctx) = extractArgsFromCtx(heap, L, ctx)
      ]_vars

\* A WithFields that wrote into the array its receiver shares.
C5_Witness ==
    \E k \in 2 .. Len(loggers) :
        /\ born[k].names # <<>>
        /\ born[k].recv.fields.len > 0
        /\ loggers[k].fields.arr = born[k].recv.fields.arr
        /\ Fields(heap, born[k].recv) = <<"request_id">>

\* C19: the Logger WithFields returns holds the sink of its receiver and
\* differs from the receiver in the field list only, so every Logger derived
\* from one sink by a chain of WithFields calls holds that sink.
C19_SameSink ==
    \A k \in 2 .. Len(loggers) :
        /\ loggers[k].sink = born[k].recv.sink
        /\ [loggers[k] EXCEPT !.fields = born[k].recv.fields] = born[k].recv
        /\ loggers[k].sink = loggers[1].sink
        /\ loggers[k].sink \in Sinks

\* A chain of three WithFields calls, each on the result of the one before,
\* the last two adding names.
C19_Witness ==
    /\ Len(loggers) >= 4
    /\ \A k \in 2 .. 4 : born[k].recv = loggers[k - 1]
    /\ born[3].names # <<>> /\ born[4].names # <<>>
    /\ loggers[4].sink = loggers[1].sink

\* C20: WithFields() with no names returns a Logger with the field list and
\* the sink of its receiver, which extracts from every context what the
\* receiver extracts, and changes nothing else.
C20_EmptyNoOp ==
    [][(Len(loggers') > Len(loggers) /\ born'[Len(loggers')].names = <<>>) =>
          LET L == born'[Len(loggers')].recv
              R == loggers'[Len(loggers')]
          IN  /\ Fields(heap', R) = Fields(heap, L)
              /\ R.sink = L.sink
              /\ \A ctx \in Contexts :
                    extractArgsFromCtx(heap', R, ctx) = extractArgsFromCtx(heap, L, ctx)
              /\ heap' = heap
      ]_vars

\* WithFields() on a Logger that has two registered fields.
C20_Witness ==
    \E k \in 2 .. Len(loggers) :
        /\ born[k].names = <<>>
        /\ Fields(heap, born[k].recv) = <<"request_id", "user">>
        /\ Fields(heap, loggers[k]) = <<"request_id", "user">>
        /\ extractArgsFromCtx(heap, loggers[k],
                              << Bind("string", "request_id", "rid-1") >>)
              = <<"request_id", "rid-1">>

\* ---------------------------------------------------------------- attached
\* The positions at which ctx attaches a Logger.
AttachIndices(ctx) ==
    {i \in 1 .. Len(ctx) : ctx[i].kt = "logContextKey" /\ ctx[i].k = "logger"}

\* The Logger whose SugaredLogger a completed call has written through.
Sent(f) == AttachedNew([core |-> f.inv.sink, attrs |-> f.inv.attrs])

\* C11: from ContextWithLogger(C, A), and from a context that adds further
\* bindings to it, extractLogger returns A on whichever Logger it is invoked,
\* and the call writes through A.
C11_ResolveAttached ==
    \A t \in Threads :
        (Called(t) /\ AttachIndices(frame[t].ctx) # {}) =>
            LET f == frame[t]
                I == AttachIndices(f.ctx)
                i == CHOOSE x \in I : \A y \in I : y <= x
                A == f.ctx[i].v
            IN  /\ \A r \in Published :
                      /\ extractLogger(r, SubSeq(f.ctx, 1, i)) = A
                      /\ extractLogger(r, f.ctx) = A
                /\ Sent(f) = A

\* A call on a root Logger of the second sink, with a context that attaches a
\* child of the first and then binds another key: it writes through the child.
C11_Witness ==
    \E t \in Threads :
        /\ Called(t)
        /\ frame[t].l = AttachedNew(Zap(2))
        /\ frame[t].ctx =
              Append(ContextWithLogger(<< Bind("string", "request_id", "rid-2") >>,
                                       AttachedWithFields(AttachedNew(Zap(1)),
                                                          <<"request_id", "rid-1">>)),
                     OtherBinding)
        /\ frame[t].inv.sink = 1
        /\ frame[t].inv.attrs = <<"request_id", "rid-1">>

\* C12: with no Logger attached to the context extractLogger returns the
\* receiver, and the call makes its one write through the receiver's
\* SugaredLogger, at the method's severity, with the sink's own outcome.
C12_FallbackToReceiver ==
    \A t \in Threads :
        (Called(t) /\ AttachIndices(frame[t].ctx) = {}) =>
            LET f == frame[t]
            IN  /\ extractLogger(f.l, f.ctx) = f.l
                /\ Sent(f) = f.l
                /\ f.writes = 1
                /\ f.inv # NoCall
                /\ f.inv.level = MethodLevel(f.method)
                /\ f.pc = SinkOutcome(f.l.SugaredLogger.core, MethodLevel(f.method))

\* A call on a child Logger with a context that binds strings only, one of
\* them under the string key "logger".
C12_Witness ==
    \E t \in Threads :
        /\ frame[t].pc = "returned"
        /\ frame[t].ctx = << Bind("string", "request_id", "rid-2"), OtherBinding >>
        /\ frame[t].inv.sink = 1
        /\ frame[t].inv.attrs = <<"request_id", "rid-1", "user", "usr-1">>
        /\ Sent(frame[t]) = frame[t].l

\* What method (a structured one) hands the sink when called with msg and the
\* pairs kvs on New(core).WithFields(k), the context binding k to v.
RegistryCall(core, k, v, method, msg, kvs) ==
    LET r == WithFieldsResult(<<>>, New(core), <<k>>, 1)
        ctx == << Bind("string", k, v) >>
        finalArgs == extractArgsFromCtx(r.heap, r.logger, ctx) \o toGenericSlice(kvs)
    IN  SinkCall(r.logger.sink, <<>>, SinkOp(method), "w", msg, finalArgs)

\* The structured call of goroutine t went through an attached Logger with the
\* one pair (k, v) bound, and emitted what the registry call emits.
SameAsRegistry(t) ==
    LET f == frame[t]
        z == extractLogger(f.l, f.ctx).SugaredLogger
        reg == RegistryCall(z.core, z.attrs[1], z.attrs[2], f.method, f.msg, f.kvs)
    IN  /\ f.inv.level = reg.level
        /\ f.inv.msg = reg.msg
        /\ f.inv.attrs \o f.inv.args = reg.args
        /\ reg.args = <<z.attrs[1], z.attrs[2]>> \o toGenericSlice(f.kvs)

\* The structured calls whose context attaches a Logger with one pair bound.
ThroughChild(t) ==
    /\ Called(t)
    /\ frame[t].method \in StructuredMethods
    /\ AttachIndices(frame[t].ctx) # {}
    /\ Len(extractLogger(frame[t].l, frame[t].ctx).SugaredLogger.attrs) = 2

\* C13: for every k and v, a structured call through an attached child
\* Logger bound with (k, v) emits the level, the message and the key/value
\* sequence that the same call emits through a Logger with k registered and a
\* context binding k to v.
C13_Interchangeable ==
    \A t \in Threads : ThroughChild(t) => SameAsRegistry(t)

\* For every k and every v other than nil the two strategies do emit the
\* same: level, message and the sequence k, v, then the call-site pairs.
C13_InterchangeableNonNil ==
    \A t \in Threads :
        (ThroughChild(t) /\
         extractLogger(frame[t].l, frame[t].ctx).SugaredLogger.attrs[2] # NIL) =>
            SameAsRegistry(t)

\* l.Infow(ctx, msg, "key", "value") with the child bound with request_id
\* attached to ctx, l the root Logger.
C13_Witness ==
    \E t \in Threads :
        /\ ThroughChild(t)
        /\ frame[t].method = "Infow"
        /\ frame[t].l = AttachedNew(Zap(1))
        /\ frame[t].kvs = << KV("key", "value") >>
        /\ frame[t].inv.attrs \o frame[t].inv.args =
              <<"request_id", "rid-1", "key", "value">>
        /\ RegistryCall(1, "request_id", "rid-1", "Infow", frame[t].msg, frame[t].kvs).args =
              <<"request_id", "rid-1", "key", "value">>

\* The greatest element of a nonempty set of numbers.
Last(I) == CHOOSE i \in I : \A j \in I : j <= i

\* C26: with a Logger A attached to the context, a call on any receiver R
\* makes its one write on A's sink, with the pairs A has bound as attributes
\* and the call-site arguments as arguments; nothing R has bound is emitted.
C26_AttachedSinkOnly ==
    \A t \in Threads :
        (Called(t) /\ AttachIndices(frame[t].ctx) # {}) =>
            LET f == frame[t]
                A == f.ctx[Last(AttachIndices(f.ctx))].v.SugaredLogger
            IN  /\ f.writes = 1
                /\ f.inv = SinkCall(A.core, A.attrs, MethodLevel(f.method),
                                    MethodStyle(f.method), f.msg, f.args)

\* The receiver has bound user on the second sink, the attached Logger
\* request_id on the first.
C26_Witness ==
    \E t \in Threads :
        /\ Called(t)
        /\ frame[t].method = "Info"
        /\ frame[t].l.SugaredLogger = With(Zap(2), <<"user", "usr-2">>)
        /\ frame[t].args = <<"here">>
        /\ frame[t].inv =
              SinkCall(1, <<"request_id", "rid-1">>, "info", "print", "", <<"here">>)

\* C27: of the Loggers attached along a chain of contexts the call resolves
\* the one attached last; the parent context still resolves what it resolved
\* before, and a sibling derived from the parent resolves its own Logger.
C27_InnermostWins ==
    \A t \in Threads :
        (Called(t) /\ AttachIndices(frame[t].ctx) # {}) =>
            LET f == frame[t]
                I == AttachIndices(f.ctx)
                parent == SubSeq(f.ctx, 1, Last(I) - 1)
                J == AttachIndices(parent)
            IN  /\ Sent(f) = f.ctx[Last(I)].v
                /\ \A r \in Published :
                      /\ extractLogger(r, parent) = IF J = {} THEN r ELSE parent[Last(J)].v
                      /\ \A y \in Published :
                            extractLogger(r, ContextWithLogger(parent, y)) = y

\* The child of the first sink attached first, the child of the second on top.
C27_Witness ==
    \E t \in Threads :
        /\ Called(t)
        /\ Len(frame[t].ctx) = 2
        /\ Cardinality(AttachIndices(frame[t].ctx)) = 2
        /\ frame[t].ctx[1].v.SugaredLogger = With(Zap(1), <<"request_id", "rid-1">>)
        /\ frame[t].inv.sink = 2
        /\ frame[t].inv.attrs = <<"user", "usr-2">>

\* The bindings of ctx made by ContextWithLogger.
AttachedOnly(ctx) ==
    LET IsAttach(b) == b.kt = "logContextKey" /\ b.k = "logger"
    IN  SelectSeq(ctx, IsAttach)

\* C28: the bindings of caller keys, the string key "logger" among them, do
\* not count: the call writes through the Logger it would write through were
\* they not there, the receiver when ContextWithLogger has attached none.
C28_OwnKeyOnly ==
    \A t \in Threads :
        Called(t) =>
            LET f == frame[t]
                own == AttachedOnly(f.ctx)
            IN  /\ Sent(f) = IF own = <<>> THEN f.l ELSE own[Len(own)].v
                /\ \A r \in Published :
                      extractLogger(r, f.ctx) = extractLogger(r, own)

\* A Logger of the second sink bound under the string key "logger": the call
\* writes through its receiver, the root Logger of the first sink.
C28_Witness ==
    \E t \in Threads :
        /\ Called(t)
        /\ frame[t].ctx = << LoggerUnderString >>
        /\ frame[t].l = AttachedNew(Zap(1))
        /\ frame[t].inv.sink = 1
        /\ frame[t].inv.attrs = <<>>

\* ---------------------------------------------------------------- deriving
\* C23: while the main goroutine derives Loggers with WithFields, a call of
\* another goroutine in progress still reads the fields its Logger showed
\* when the call began, and a completed call has extracted exactly those.
C23_RaceFree ==
    \A t \in Threads :
        /\ frame[t].pc = "extract" => Fields(heap, frame[t].l) = frame[t].seen
        /\ (Called(t) /\ frame[t].method = "Infow") =>
              frame[t].ctxArgs = extractFrom(frame[t].seen, frame[t].ctx, 1, <<>>)

\* ---------------------------------------------------------------- selector
\* C29: Log calls the selector's function for the level once, with the
\* extracted pairs followed by the flattened call-site pairs; on a Logger as
\* New built it that function is the sink's structured write of the level;
\* without an entry for the level Log writes nothing and returns.
C29_LogBySelector ==
    \A t \in Threads :
        (Called(t) /\ frame[t].method = "Log") =>
            LET f == frame[t]
                sel == f.l.logLevelSelector
                e == extractFrom(Fields(heap, f.l), f.ctx, 1, <<>>)
            IN  /\ IF f.level \in DOMAIN sel
                   THEN /\ f.writes = 1
                        /\ f.inv = SinkCall(sel[f.level].sink, <<>>, sel[f.level].op,
                                            "w", f.msg, e \o toGenericSlice(f.kvs))
                   ELSE /\ f.writes = 0
                        /\ f.inv = NoCall
                        /\ f.pc = "returned"
                /\ (f.l = loggers[1] /\ f.level \in SevenLevels) =>
                      /\ f.inv.sink = f.l.sink
                      /\ f.inv.level = f.level
                      /\ f.inv.style = "w"

\* Log at debug level through a Logger whose selector has entries for info
\* and error only: nothing is written.
C29_Witness ==
    \E t \in Threads :
        /\ frame[t].pc = "returned"
        /\ frame[t].method = "Log"
        /\ frame[t].level = "debug"
        /\ DOMAIN frame[t].l.logLevelSelector = {"info", "error"}
        /\ frame[t].ctxArgs = <<"request_id", "rid-1">>
        /\ frame[t].writes = 0

\* ---------------------------------------------------------------- goroutines
\* The values a context binds.
ValuesOf(ctx) == {ctx[j].v : j \in 1 .. Len(ctx)}

\* C10: with handlers logging concurrently through one shared Logger, each
\* with its own context, what a call has extracted and what it hands to the
\* sink holds the values of its own context and of no other call's context.
C10_NoCrossTalk ==
    \A t \in Threads :
        frame[t].pc \in {"extract", "returned"} =>
            LET f == frame[t]
                own == IF f.pc = "returned"
                       THEN SubSeq(f.inv.args, 1, Len(f.ctxArgs))
                       ELSE f.ctxArgs
            IN  /\ own = f.ctxArgs
                /\ f.pc = "returned" =>
                      own = extractArgsFromCtx(heap, f.l, f.ctx)
                /\ \A j \in 1 .. (Len(own) \div 2) :
                      /\ own[2 * j] = Value(f.ctx, "string", own[2 * j - 1])
                      /\ \A u \in Threads \ {t} :
                            frame[u].pc # "idle" => own[2 * j] \notin ValuesOf(frame[u].ctx)

\* Two calls that overlapped have both written, each its own request id.
C10_Witness ==
    /\ frame[1].pc = "returned" /\ frame[2].pc = "returned"
    /\ frame[1].l = frame[2].l
    /\ frame[2].conc
    /\ frame[1].inv.args = <<"request_id", "rid-1", "user", "usr-1", "key", "value">>
    /\ frame[2].inv.args = <<"request_id", "rid-2", "user", "usr-2", "key", "value">>

====
